---- MODULE Spec2Model ----
(***************************************************************************)
(* A model of battery_monitor_streamlit.py: the Streamlit session state    *)
(* with its button handlers, and the pure functions get_cell_status,       *)
(* generate_cell_data, calculate_session_averages, create_comparison_chart *)
(* and export_to_csv.                                                      *)
(*                                                                         *)
(* Units.  The program stores every reading rounded (lines 137-144), so    *)
(* the stored values are integers of a fixed unit:                         *)
(*   voltage, current, capacity : hundredths (0.01 V, 0.01 A, 0.01 Wh)     *)
(*   temperature, soc           : tenths     (0.1 degC, 0.1 %)             *)
(* np.random.random() is a draw in thousandths, 0..999.                    *)
(*                                                                         *)
(* Python objects.  A cell is a dict, a mutable object: cells_data and the *)
(* 'cells' list of a snapshot hold references to cells, and heap maps a    *)
(* reference to the dict's present contents.                               *)
(***************************************************************************)
EXTENDS Integers, Sequences, FiniteSets, TLC

VARIABLES
    cells_data,             \* st.session_state.cells_data: references into heap
    heap,                   \* the cell dicts, by reference
    tasks_data,             \* st.session_state.tasks_data
    monitoring_active,      \* st.session_state.monitoring_active
    session_data,           \* st.session_state.session_data: the session log
    previous_session_data,  \* st.session_state.previous_session_data
    show_task_config,       \* st.session_state.show_task_config (absent = FALSE)
    clock,                  \* datetime.now(), one tick per handler that reads it
    ui_out,                 \* what the last script run showed (message, table, chart)
    fn,                     \* the pure function applied last ("none" before a call)
    arg,                    \* its argument
    ret                     \* its result

vars == <<cells_data, heap, tasks_data, monitoring_active, session_data,
          previous_session_data, show_task_config, clock, ui_out, fn, arg, ret>>

uiVars == <<cells_data, heap, tasks_data, monitoring_active, session_data,
            previous_session_data, show_task_config, clock, ui_out>>

fnVars == <<fn, arg, ret>>

----------------------------------------------------------------------------
(* Bounds of the model. *)

MaxCells == 2           \* "Number of Cells" entered (the widget allows 1..20)
MaxTasks == 1           \* "Number of Tasks" entered (the widget allows 1..10)
MaxClock == 3           \* handlers that read the time, per behaviour

----------------------------------------------------------------------------
(* Sequences and arithmetic. *)

RECURSIVE SeqsUpTo(_, _)
SeqsUpTo(S, n) ==
    IF n = 0 THEN {<<>>}
    ELSE LET shorter == SeqsUpTo(S, n - 1)
         IN  shorter \cup {Append(s, x) : s \in {t \in shorter : Len(t) = n - 1}, x \in S}

IsPrefix(s, t) == Len(s) <= Len(t) /\ SubSeq(t, 1, Len(s)) = s

\* round(): num/den to the nearest integer, a tie to the even one.  num >= 0.
RoundHalfEven(num, den) ==
    LET q == num \div den
        r == num % den
    IN  IF 2 * r < den THEN q
        ELSE IF 2 * r > den THEN q + 1
        ELSE IF q % 2 = 0 THEN q ELSE q + 1

Min2(a, b) == IF a <= b THEN a ELSE b
Max2(a, b) == IF a >= b THEN a ELSE b

\* np.clip(x, lo, hi)
np_clip(x, lo, hi) == Max2(lo, Min2(x, hi))

----------------------------------------------------------------------------
(* CELL_TYPES, lines 94-119: voltages in hundredths of a volt. *)

CellTypeIds == {"LFP", "NMC", "LCO"}

CELL_TYPES ==
    [t \in CellTypeIds |->
        CASE t = "LFP" -> [name |-> "Lithium Iron Phosphate", nominal_voltage |-> 320,
                           minimum_voltage |-> 280, maximum_voltage |-> 360,
                           charge_time |-> 90, discharge_time |-> 180]
          [] t = "NMC" -> [name |-> "Nickel Manganese Cobalt", nominal_voltage |-> 360,
                           minimum_voltage |-> 320, maximum_voltage |-> 400,
                           charge_time |-> 120, discharge_time |-> 240]
          [] t = "LCO" -> [name |-> "Lithium Cobalt Oxide", nominal_voltage |-> 380,
                           minimum_voltage |-> 300, maximum_voltage |-> 420,
                           charge_time |-> 100, discharge_time |-> 200]]

----------------------------------------------------------------------------
(* get_cell_status, lines 146-157.                                         *)
(*                                                                         *)
(* The thresholds are products of IEEE-754 doubles and are compared with   *)
(* voltages of two decimals.  float_mul gives the product in thousandths   *)
(* of a volt: the exact product, moved by one thousandth to the side on    *)
(* which the double lies when the double is not the one of the decimal     *)
(* value.  Of the nine products of the three chemistries,                  *)
(*   3.2*1.1 = 3.5200000000000005   3.0*1.1 = 3.3000000000000003           *)
(*   3.0*1.2 = 3.5999999999999996   4.2*0.9 = 3.7800000000000002           *)
(* and the other five are the doubles of their decimal values.  A voltage  *)
(* v in hundredths is then compared as 10*v.                               *)

FloatProductError(volts, tenths) ==
    CASE volts = 320 /\ tenths = 11 -> 1
      [] volts = 300 /\ tenths = 11 -> 1
      [] volts = 300 /\ tenths = 12 -> -1
      [] volts = 420 /\ tenths = 9  -> 1
      [] OTHER -> 0

float_mul(volts, tenths) == volts * tenths + FloatProductError(volts, tenths)

\* CELL_TYPES[cell_type] of a key the dict does not have
KeyError == [raise |-> "KeyError"]

Raises(r) == "raise" \in DOMAIN r

get_cell_status_HighFirst(voltage, temperature, cell_type) ==
    IF cell_type \notin DOMAIN CELL_TYPES THEN KeyError
    ELSE LET specs == CELL_TYPES[cell_type]
         IN  IF 10 * voltage >= float_mul(specs.maximum_voltage, 9)
                THEN [status |-> "High", color |-> "normal"]
             ELSE IF 10 * voltage <= float_mul(specs.minimum_voltage, 11) \/ temperature > 450
                THEN [status |-> "Critical", color |-> "critical"]
             ELSE IF 10 * voltage <= float_mul(specs.minimum_voltage, 12) \/ temperature > 400
                THEN [status |-> "Warning", color |-> "warning"]
             ELSE [status |-> "Normal", color |-> "normal"]

get_cell_status_WarningFirst(voltage, temperature, cell_type) ==
    IF cell_type \notin DOMAIN CELL_TYPES THEN KeyError
    ELSE LET specs == CELL_TYPES[cell_type]
         IN  IF 10 * voltage <= float_mul(specs.minimum_voltage, 12) \/ temperature > 400
                THEN [status |-> "Warning", color |-> "warning"]
             ELSE IF 10 * voltage <= float_mul(specs.minimum_voltage, 11) \/ temperature > 450
                THEN [status |-> "Critical", color |-> "critical"]
             ELSE IF 10 * voltage >= float_mul(specs.maximum_voltage, 9)
                THEN [status |-> "High", color |-> "normal"]
             ELSE [status |-> "Normal", color |-> "normal"]

\* a bug: the Warning limit taken as minimum_voltage * 1.1, like the Critical one
get_cell_status_WarningLimit(voltage, temperature, cell_type) ==
    IF cell_type \notin DOMAIN CELL_TYPES THEN KeyError
    ELSE LET specs == CELL_TYPES[cell_type]
         IN  IF 10 * voltage <= float_mul(specs.minimum_voltage, 11) \/ temperature > 450
                THEN [status |-> "Critical", color |-> "critical"]
             ELSE IF 10 * voltage <= float_mul(specs.minimum_voltage, 11) \/ temperature > 400
                THEN [status |-> "Warning", color |-> "warning"]
             ELSE IF 10 * voltage >= float_mul(specs.maximum_voltage, 9)
                THEN [status |-> "High", color |-> "normal"]
             ELSE [status |-> "Normal", color |-> "normal"]

get_cell_status(voltage, temperature, cell_type) ==
    IF cell_type \notin DOMAIN CELL_TYPES THEN KeyError
    ELSE LET specs == CELL_TYPES[cell_type]
         IN  IF 10 * voltage <= float_mul(specs.minimum_voltage, 11) \/ temperature > 450
                THEN [status |-> "Critical", color |-> "critical"]
             ELSE IF 10 * voltage <= float_mul(specs.minimum_voltage, 12) \/ temperature > 400
                THEN [status |-> "Warning", color |-> "warning"]
             ELSE IF 10 * voltage >= float_mul(specs.maximum_voltage, 9)
                THEN [status |-> "High", color |-> "normal"]
             ELSE [status |-> "Normal", color |-> "normal"]

----------------------------------------------------------------------------
(* generate_cell_data, lines 121-144.  u1, u2, u3 are the three draws of   *)
(* np.random.random(), in thousandths.  Unrounded voltage and current are  *)
(* in units of 0.0001, the unrounded temperature in 0.001 degC, the        *)
(* capacity product in 0.00000001 Wh.  round() is taken on the exact       *)
(* decimal value.                                                          *)

\* lines 130-144: the reading built from the clipped voltage (0.0001 V)
reading_of(specs, voltage, u2, u3, now) ==
    LET current       == Max2(1000, 8000 + (u2 - 500) * 5)
        temperature   == 25000 + u3 * 20
        capacity      == voltage * current
        voltage_range == specs.maximum_voltage - specs.minimum_voltage
    IN  [voltage     |-> RoundHalfEven(voltage, 100),
         current     |-> RoundHalfEven(current, 100),
         temperature |-> RoundHalfEven(temperature, 100),
         capacity    |-> RoundHalfEven(capacity, 1000000),
         soc         |-> RoundHalfEven((voltage - specs.minimum_voltage * 100) * 10,
                                       voltage_range),
         timestamp   |-> now]

\* a bug: the raw voltage used unclipped
generate_from_raw_NoClip(cell_type, raw_voltage, u2, u3, now) ==
    reading_of(CELL_TYPES[cell_type], raw_voltage, u2, u3, now)

\* lines 123-128 with the raw voltage (0.0001 V) given: the clip, then the reading
generate_from_raw(cell_type, raw_voltage, u2, u3, now) ==
    LET specs   == CELL_TYPES[cell_type]
        voltage == np_clip(raw_voltage, specs.minimum_voltage * 100,
                           specs.maximum_voltage * 100)
    IN  reading_of(specs, voltage, u2, u3, now)

generate_cell_data(cell_type, u1, u2, u3, now) ==
    LET specs             == CELL_TYPES[cell_type]
        base_voltage      == specs.nominal_voltage * 100
        voltage_variation == (u1 - 500) * 2
    IN  generate_from_raw(cell_type, base_voltage + voltage_variation, u2, u3, now)

----------------------------------------------------------------------------
(* calculate_session_averages, lines 274-296.  The argument is a list of   *)
(* snapshots (dicts with a 'cells' key) or a flat list of readings; which  *)
(* one is decided on its first element alone (line 280).                   *)

\* np.mean of the empty list is nan (and round(nan) is nan)
NaN == -1

RECURSIVE SumSeq(_)
SumSeq(values) ==
    IF values = <<>> THEN 0 ELSE Head(values) + SumSeq(Tail(values))

\* round(np.mean(values), n) of values held in units of 10^-n
round_mean(values) ==
    IF values = <<>> THEN NaN ELSE RoundHalfEven(SumSeq(values), Len(values))

\* lines 281-284: all_cells.extend(data_point['cells']) for every data point
RECURSIVE extend_all(_)
extend_all(points) ==
    IF points = <<>> THEN <<>> ELSE Head(points).cells \o extend_all(Tail(points))

ZeroAverages == [voltage |-> 0, temperature |-> 0, soc |-> 0, capacity |-> 0]

\* lines 291-296
averages_of(cells) ==
    [voltage     |-> round_mean([i \in 1..Len(cells) |-> cells[i].voltage]),
     temperature |-> round_mean([i \in 1..Len(cells) |-> cells[i].temperature]),
     soc         |-> round_mean([i \in 1..Len(cells) |-> cells[i].soc]),
     capacity    |-> round_mean([i \in 1..Len(cells) |-> cells[i].capacity])]

\* a bug: the mean of the per-snapshot means
RECURSIVE snapshot_means(_)
snapshot_means(points) ==
    IF points = <<>> THEN <<>>
    ELSE <<averages_of(Head(points).cells)>> \o snapshot_means(Tail(points))

calculate_session_averages_MeanOfMeans(data) ==
    IF data = <<>> THEN ZeroAverages
    ELSE IF "cells" \in DOMAIN data[1]
         THEN IF extend_all(data) = <<>> THEN ZeroAverages
              ELSE averages_of(snapshot_means(data))
         ELSE averages_of(data)

\* a bug: no check of the flattened list, line 288
calculate_session_averages_NoCheck(data) ==
    IF data = <<>> THEN ZeroAverages
    ELSE averages_of(IF "cells" \in DOMAIN data[1] THEN extend_all(data) ELSE data)

calculate_session_averages(data) ==
    IF data = <<>> THEN ZeroAverages
    ELSE LET all_cells == IF "cells" \in DOMAIN data[1] THEN extend_all(data) ELSE data
         IN  IF all_cells = <<>> THEN ZeroAverages ELSE averages_of(all_cells)

----------------------------------------------------------------------------
(* create_comparison_chart, lines 244-272: the figure, as its bar traces   *)
(* (name, x, y) and its title; go.Figure() has no trace and no title.      *)

EmptyFigure == [data |-> <<>>, title |-> ""]

metrics == <<"Voltage", "Temperature", "SOC", "Capacity">>

metric_values(avg) == <<avg.voltage, avg.temperature, avg.soc, avg.capacity>>

\* a bug: both traces drawn from the current session's averages
create_comparison_chart_SameSide(current_data, previous_data) ==
    IF current_data = <<>> \/ previous_data = <<>> THEN EmptyFigure
    ELSE LET current_avg == calculate_session_averages(current_data)
         IN  [data  |-> <<[name |-> "Current Session", x |-> metrics,
                           y |-> metric_values(current_avg)],
                          [name |-> "Previous Session", x |-> metrics,
                           y |-> metric_values(current_avg)]>>,
              title |-> "Session Comparison"]

create_comparison_chart(current_data, previous_data) ==
    IF current_data = <<>> \/ previous_data = <<>> THEN EmptyFigure
    ELSE LET current_avg  == calculate_session_averages(current_data)
             previous_avg == calculate_session_averages(previous_data)
         IN  [data  |-> <<[name |-> "Current Session", x |-> metrics,
                           y |-> metric_values(current_avg)],
                          [name |-> "Previous Session", x |-> metrics,
                           y |-> metric_values(previous_avg)]>>,
              title |-> "Session Comparison"]

----------------------------------------------------------------------------
(* export_to_csv, lines 298-325: the rows of the DataFrame, or the         *)
(* exception that get_cell_status raised.                                  *)

\* Python's None
None == [none |-> TRUE]

\* a bug: the last running task of the list
RECURSIVE first_running_Last(_)
first_running_Last(tasks) ==
    IF tasks = <<>> THEN None
    ELSE IF Head(tasks).status = "running" /\ first_running_Last(Tail(tasks)) = None
         THEN Head(tasks)
    ELSE first_running_Last(Tail(tasks))

\* lines 305-306: next((task for task in tasks if status == 'running'), None)
RECURSIVE first_running(_)
first_running(tasks) ==
    IF tasks = <<>> THEN None
    ELSE IF Head(tasks).status = "running" THEN Head(tasks)
    ELSE first_running(Tail(tasks))

\* lines 309-322: the row of one cell, or the exception of line 309
export_row(timestamp, active_task, cell) ==
    LET status == get_cell_status(cell.voltage, cell.temperature, cell.type)
    IN  IF Raises(status) THEN status
        ELSE [Timestamp     |-> timestamp,
              Cell_Name     |-> cell.name,
              Type          |-> cell.type,
              Voltage       |-> cell.voltage,
              Current       |-> cell.current,
              Temperature   |-> cell.temperature,
              Capacity      |-> cell.capacity,
              SOC           |-> cell.soc,
              Status        |-> status.status,
              Active_Task   |-> IF active_task = None THEN "None" ELSE active_task.type,
              Task_Progress |-> IF active_task = None THEN 0 ELSE active_task.progress]

\* a bug: a row put in front of the rows so far
RECURSIVE export_cells_Prepend(_, _, _, _)
export_cells_Prepend(frame, timestamp, active_task, cells) ==
    IF cells = <<>> THEN frame
    ELSE LET row == export_row(timestamp, active_task, Head(cells))
         IN  IF Raises(row) THEN row
             ELSE export_cells_Prepend([rows |-> <<row>> \o frame.rows], timestamp,
                                       active_task, Tail(cells))

\* a bug: a cell whose status cannot be found is left out and the export goes on
RECURSIVE export_cells_SkipFailed(_, _, _, _)
export_cells_SkipFailed(frame, timestamp, active_task, cells) ==
    IF cells = <<>> THEN frame
    ELSE LET row == export_row(timestamp, active_task, Head(cells))
         IN  IF Raises(row)
             THEN export_cells_SkipFailed(frame, timestamp, active_task, Tail(cells))
             ELSE export_cells_SkipFailed([rows |-> Append(frame.rows, row)], timestamp,
                                          active_task, Tail(cells))

\* lines 308-323: the loop over a snapshot's cells, frame.rows being data_rows so
\* far; an exception ends it
RECURSIVE export_cells(_, _, _, _)
export_cells(frame, timestamp, active_task, cells) ==
    IF cells = <<>> THEN frame
    ELSE LET row == export_row(timestamp, active_task, Head(cells))
         IN  IF Raises(row) THEN row
             ELSE export_cells([rows |-> Append(frame.rows, row)], timestamp,
                               active_task, Tail(cells))

\* lines 303-323: the loop over the snapshots
RECURSIVE export_sessions(_, _)
export_sessions(frame, sessions) ==
    IF sessions = <<>> THEN frame
    ELSE LET session == Head(sessions)
             next    == export_cells(frame, session.timestamp,
                                     first_running(session.tasks), session.cells)
         IN  IF Raises(next) THEN next ELSE export_sessions(next, Tail(sessions))

\* the DataFrame [rows |-> data_rows], or the exception raised
export_to_csv(sessions, cells, tasks) == export_sessions([rows |-> <<>>], sessions)

----------------------------------------------------------------------------
(* The session state and the button handlers of main, lines 327-725.  One  *)
(* action is one script run with one button pressed.                       *)

\* the values the lists of references stand for
Deref(refs) == [j \in 1..Len(refs) |-> heap[refs[j]]]

SnapshotValue(snapshot) ==
    [timestamp |-> snapshot.timestamp,
     cells     |-> Deref(snapshot.cells),
     tasks     |-> snapshot.tasks]

SessionValue(log) == [i \in 1..Len(log) |-> SnapshotValue(log[i])]

\* the draws (u1, u2, u3) of one generate_cell_data call
UiDraws == {<<0, 500, 0>>, <<999, 500, 999>>}

TaskTypes == {"CC_CV", "IDLE", "CC_CD"}

\* "Duration (seconds)" entered
DurationChoices == {300}

\* init_session_state, lines 77-91
InitSessionState ==
    /\ cells_data = <<>>
    /\ heap = <<>>
    /\ tasks_data = <<>>
    /\ monitoring_active = FALSE
    /\ session_data = <<>>
    /\ previous_session_data = <<>>
    /\ show_task_config = FALSE
    /\ clock = 0
    /\ ui_out = [kind |-> "page"]

NoCall ==
    /\ fn = "none"
    /\ arg = <<>>
    /\ ret = <<>>

Init == InitSessionState /\ NoCall

\* lines 361-366: the new cell dict
new_cell(i, cell_type, draw, now) ==
    LET cell_data == generate_cell_data(cell_type, draw[1], draw[2], draw[3], now)
    IN  [voltage     |-> cell_data.voltage,
         current     |-> cell_data.current,
         temperature |-> cell_data.temperature,
         capacity    |-> cell_data.capacity,
         soc         |-> cell_data.soc,
         timestamp   |-> cell_data.timestamp,
         id          |-> i,
         name        |-> <<"Cell_", i>>,
         type        |-> cell_type]

\* "Generate Cells", lines 358-369
GenerateCells ==
    /\ clock < MaxClock
    /\ \E num_cells \in 1..MaxCells, default_cell_type \in CellTypeIds :
         \E draws \in [1..num_cells -> UiDraws] :
            /\ heap' = heap \o [i \in 1..num_cells |->
                                  new_cell(i, default_cell_type, draws[i], clock)]
            /\ cells_data' = [i \in 1..num_cells |-> Len(heap) + i]
            /\ ui_out' = [kind |-> "success", text |-> "Generated cells successfully!"]
    /\ clock' = clock + 1
    /\ UNCHANGED <<tasks_data, monitoring_active, session_data, previous_session_data,
                   show_task_config>>
    /\ UNCHANGED fnVars

\* "Configure Tasks", lines 378-379
ConfigureTasks ==
    /\ show_task_config' = TRUE
    /\ ui_out' = [kind |-> "page"]
    /\ UNCHANGED <<cells_data, heap, tasks_data, monitoring_active, session_data,
                   previous_session_data, clock>>
    /\ UNCHANGED fnVars

\* "Start Monitoring", lines 389-393
StartMonitoring ==
    /\ ~monitoring_active
    /\ monitoring_active' = TRUE
    /\ ui_out' = [kind |-> "success", text |-> "Monitoring started!"]
    /\ UNCHANGED <<cells_data, heap, tasks_data, session_data, previous_session_data,
                   show_task_config, clock>>
    /\ UNCHANGED fnVars

\* "Pause Monitoring", lines 394-398
PauseMonitoring ==
    /\ monitoring_active
    /\ monitoring_active' = FALSE
    /\ ui_out' = [kind |-> "warning", text |-> "Monitoring paused"]
    /\ UNCHANGED <<cells_data, heap, tasks_data, session_data, previous_session_data,
                   show_task_config, clock>>
    /\ UNCHANGED fnVars

\* line 405: cell.update(new_data), on the dict itself
cell_update(cell, new_data) ==
    [cell EXCEPT !.voltage = new_data.voltage, !.current = new_data.current,
                 !.temperature = new_data.temperature, !.capacity = new_data.capacity,
                 !.soc = new_data.soc, !.timestamp = new_data.timestamp]

\* a bug: the new snapshot put first
append_snapshot_First(log, snapshot) == <<snapshot>> \o log

\* lines 408-412: session_data.append(snapshot)
append_snapshot(log, snapshot) == Append(log, snapshot)

\* "Update Data", lines 401-415
UpdateData ==
    /\ clock < MaxClock
    /\ IF cells_data # <<>>
       THEN /\ \E draws \in [1..Len(cells_data) -> UiDraws] :
                 heap' = [r \in 1..Len(heap) |->
                            IF \E j \in 1..Len(cells_data) : cells_data[j] = r
                            THEN LET j == CHOOSE k \in 1..Len(cells_data) : cells_data[k] = r
                                 IN  cell_update(heap[r],
                                        generate_cell_data(heap[r].type, draws[j][1],
                                                           draws[j][2], draws[j][3], clock))
                            ELSE heap[r]]
            /\ session_data' = append_snapshot(session_data,
                                  [timestamp |-> clock,
                                   cells     |-> cells_data,
                                   tasks     |-> tasks_data])
            /\ clock' = clock + 1
            /\ ui_out' = [kind |-> "success", text |-> "Data updated!"]
       ELSE /\ ui_out' = [kind |-> "page"]
            /\ UNCHANGED <<heap, session_data, clock>>
    /\ UNCHANGED <<cells_data, tasks_data, monitoring_active, previous_session_data,
                   show_task_config>>
    /\ UNCHANGED fnVars

\* "Export CSV", lines 417-430
ExportCSV ==
    /\ ui_out' = IF session_data # <<>>
                 THEN [kind |-> "download",
                       csv  |-> export_to_csv(SessionValue(session_data),
                                              Deref(cells_data), tasks_data)]
                 ELSE [kind |-> "error", text |-> "No data available to export"]
    /\ UNCHANGED <<cells_data, heap, tasks_data, monitoring_active, session_data,
                   previous_session_data, show_task_config, clock>>
    /\ UNCHANGED fnVars

\* "Save Session", lines 434-448: the record is built and dropped
SaveSession ==
    /\ ui_out' = [kind |-> "success", text |-> "Session saved!"]
    /\ UNCHANGED <<cells_data, heap, tasks_data, monitoring_active, session_data,
                   previous_session_data, show_task_config, clock>>
    /\ UNCHANGED fnVars

\* "Load Session", lines 451-453
LoadSession ==
    /\ ui_out' = [kind |-> "info", text |-> "Session loading feature"]
    /\ UNCHANGED <<cells_data, heap, tasks_data, monitoring_active, session_data,
                   previous_session_data, show_task_config, clock>>
    /\ UNCHANGED fnVars

\* a bug: the task created as started
new_task_Running(i, task_type, duration) ==
    [id         |-> i,
     type       |-> task_type,
     duration   |-> duration,
     progress   |-> 50,
     status     |-> "running",
     start_time |-> "None",
     end_time   |-> "None"]

\* lines 475-483: the task of form row i.  The parameters of lines 485-508
\* (cccp, cv_voltage, ...) are widget values no operation reads.
new_task(i, task_type, duration) ==
    [id         |-> i,
     type       |-> task_type,
     duration   |-> duration,
     progress   |-> 0,
     status     |-> "pending",
     start_time |-> "None",
     end_time   |-> "None"]

\* "Cancel Tasks", lines 515-517
CancelTasks ==
    /\ show_task_config
    /\ show_task_config' = FALSE
    /\ ui_out' = [kind |-> "page"]
    /\ UNCHANGED <<cells_data, heap, tasks_data, monitoring_active, session_data,
                   previous_session_data, clock>>
    /\ UNCHANGED fnVars

\* "Save Tasks", lines 460-510 and 520-524
SaveTasks ==
    /\ show_task_config
    /\ \E num_tasks \in 1..MaxTasks :
         \E task_type \in [1..num_tasks -> TaskTypes],
            duration \in [1..num_tasks -> DurationChoices] :
            tasks_data' = [i \in 1..num_tasks |-> new_task(i, task_type[i], duration[i])]
    /\ show_task_config' = FALSE
    /\ ui_out' = [kind |-> "success", text |-> "Configured tasks successfully!"]
    /\ UNCHANGED <<cells_data, heap, monitoring_active, session_data,
                   previous_session_data, clock>>
    /\ UNCHANGED fnVars

\* a bug (or the feature written): the present session taken as the previous one
LoadPreviousData_Loads ==
    /\ previous_session_data' = SessionValue(session_data)
    /\ ui_out' = [kind |-> "info", text |-> "Previous data loading"]
    /\ UNCHANGED <<cells_data, heap, tasks_data, monitoring_active, session_data,
                   show_task_config, clock>>
    /\ UNCHANGED fnVars

\* "Load Previous Data", lines 663-665
LoadPreviousData ==
    /\ ui_out' = [kind |-> "info", text |-> "Previous data loading"]
    /\ UNCHANGED <<cells_data, heap, tasks_data, monitoring_active, session_data,
                   previous_session_data, show_task_config, clock>>
    /\ UNCHANGED fnVars

\* "Compare Sessions", lines 668-676
CompareSessions ==
    /\ ui_out' = IF session_data # <<>> /\ previous_session_data # <<>>
                 THEN [kind   |-> "chart",
                       figure |-> create_comparison_chart(SessionValue(session_data),
                                                          previous_session_data)]
                 ELSE [kind |-> "warning",
                       text |-> "Current and previous session data required for comparison"]
    /\ UNCHANGED <<cells_data, heap, tasks_data, monitoring_active, session_data,
                   previous_session_data, show_task_config, clock>>
    /\ UNCHANGED fnVars

\* the auto-refresh of lines 722-725: a rerun with no button pressed
AutoRefresh ==
    /\ monitoring_active
    /\ ui_out' = [kind |-> "page"]
    /\ UNCHANGED <<cells_data, heap, tasks_data, monitoring_active, session_data,
                   previous_session_data, show_task_config, clock>>
    /\ UNCHANGED fnVars

Next ==
    \/ GenerateCells
    \/ ConfigureTasks
    \/ StartMonitoring
    \/ PauseMonitoring
    \/ UpdateData
    \/ ExportCSV
    \/ SaveSession
    \/ LoadSession
    \/ CancelTasks
    \/ SaveTasks
    \/ LoadPreviousData
    \/ CompareSessions
    \/ AutoRefresh

Spec == Init /\ [][Next]_vars

----------------------------------------------------------------------------
(* get_cell_status on its own: every voltage of a range around the three   *)
(* chemistries' thresholds, temperatures on both sides of 40 and 45 degC.  *)

MinInputVoltage == 270
MaxInputVoltage == 430

TemperatureInputs == {200, 250, 400, 401, 450, 451, 460}

StatusInputs ==
    [voltage : MinInputVoltage..MaxInputVoltage,
     temperature : TemperatureInputs,
     cell_type : CellTypeIds]

InitStatus ==
    /\ InitSessionState
    /\ fn = "none"
    /\ arg \in StatusInputs
    /\ ret = <<>>

CallGetCellStatus ==
    /\ fn = "none"
    /\ fn' = "get_cell_status"
    /\ ret' = get_cell_status(arg.voltage, arg.temperature, arg.cell_type)
    /\ UNCHANGED arg
    /\ UNCHANGED uiVars

NextStatus == CallGetCellStatus

SpecStatus == InitStatus /\ [][NextStatus]_vars

----------------------------------------------------------------------------
(* calculate_session_averages on its own: snapshot sequences and flat      *)
(* lists of readings.  The readings are whole volts, tens of degrees, tens *)
(* of percent and whole watt-hours, for which the means of up to a dozen   *)
(* readings round in binary as they do in decimal.                         *)

MaxAvgSnapshots == 2
MaxAvgCells == 3

reading(voltage, temperature, soc, capacity, id, cell_type) ==
    [voltage     |-> voltage,
     current     |-> 100,
     temperature |-> temperature,
     capacity    |-> capacity,
     soc         |-> soc,
     timestamp   |-> 0,
     id          |-> id,
     name        |-> <<"Cell_", id>>,
     type        |-> cell_type]

AvgReadings ==
    {reading(300, 200, 0, 300, 1, "LCO"), reading(400, 400, 800, 400, 2, "LCO")}

\* the sessions made of the given cell lists: snapshot i is taken at time i
SessionOf(parts) ==
    [i \in 1..Len(parts) |-> [timestamp |-> i, cells |-> parts[i], tasks |-> <<>>]]

AvgSessions ==
    {SessionOf(parts) :
        parts \in SeqsUpTo(SeqsUpTo(AvgReadings, MaxAvgCells), MaxAvgSnapshots)}

AvgInputs == AvgSessions \cup SeqsUpTo(AvgReadings, MaxAvgCells)

InitAverages ==
    /\ InitSessionState
    /\ fn = "none"
    /\ arg \in AvgInputs
    /\ ret = <<>>

CallAverages ==
    /\ fn = "none"
    /\ fn' = "calculate_session_averages"
    /\ ret' = calculate_session_averages(arg)
    /\ UNCHANGED arg
    /\ UNCHANGED uiVars

NextAverages == CallAverages

SpecAverages == InitAverages /\ [][NextAverages]_vars

----------------------------------------------------------------------------
(* create_comparison_chart on its own, on every pair of small sessions.    *)

MaxCompareSnapshots == 2
MaxCompareCells == 1

CompareSessionInputs ==
    {SessionOf(parts) :
        parts \in SeqsUpTo(SeqsUpTo(AvgReadings, MaxCompareCells), MaxCompareSnapshots)}

InitCompare ==
    /\ InitSessionState
    /\ fn = "none"
    /\ arg \in [current_data : CompareSessionInputs, previous_data : CompareSessionInputs]
    /\ ret = <<>>

CallCompare ==
    /\ fn = "none"
    /\ fn' = "create_comparison_chart"
    /\ ret' = create_comparison_chart(arg.current_data, arg.previous_data)
    /\ UNCHANGED arg
    /\ UNCHANGED uiVars

NextCompare == CallCompare

SpecCompare == InitCompare /\ [][NextCompare]_vars

----------------------------------------------------------------------------
(* export_to_csv on its own, on every session of at most MaxExportSnapshots *)
(* snapshots holding at most MaxExportItems readings and tasks together.    *)

MaxExportSnapshots == 2
MaxExportItems == 3

ExportReadings ==
    {reading(300, 250, 250, 240, 1, "LFP"), reading(370, 420, 583, 296, 2, "LCO"),
     reading(390, 300, 875, 312, 3, "NMC")}

task(id, task_type, status, progress) ==
    [new_task(id, task_type, 300) EXCEPT !.status = status, !.progress = progress]

ExportTasks ==
    {task(1, "CC_CV", "pending", 0), task(2, "IDLE", "running", 40),
     task(3, "CC_CD", "running", 70)}

SeqsOfLen(S, n) == {s \in SeqsUpTo(S, n) : Len(s) = n}

\* the snapshots of k readings and tasks together
SnapshotsOfSize(k) ==
    UNION {{[cells |-> c, tasks |-> t] :
               c \in SeqsOfLen(ExportReadings, a), t \in SeqsOfLen(ExportTasks, k - a)} :
           a \in 0..k}

RECURSIVE SnapshotLists(_, _)
SnapshotLists(n, m) ==
    IF n = 0 THEN {<<>>}
    ELSE {<<>>} \cup
         UNION {{<<p>> \o rest : p \in SnapshotsOfSize(k), rest \in SnapshotLists(n - 1, m - k)} :
                k \in 0..m}

ExportSessions ==
    {[i \in 1..Len(parts) |->
         [timestamp |-> i, cells |-> parts[i].cells, tasks |-> parts[i].tasks]] :
     parts \in SnapshotLists(MaxExportSnapshots, MaxExportItems)}

InitExport ==
    /\ InitSessionState
    /\ fn = "none"
    /\ arg \in ExportSessions
    /\ ret = <<>>

CallExport ==
    /\ fn = "none"
    /\ fn' = "export_to_csv"
    /\ ret' = export_to_csv(arg, <<>>, <<>>)
    /\ UNCHANGED arg
    /\ UNCHANGED uiVars

NextExport == CallExport

SpecExport == InitExport /\ [][NextExport]_vars

----------------------------------------------------------------------------
(* The claims. *)

\* the readings snapshot i of the session log holds
SnapshotReadings(i) == Deref(session_data[i].cells)

\* C1: a snapshot of the session log keeps the readings it was appended with:
\* no step changes the voltage, current, temperature, capacity, soc or timestamp
\* of a cell of a recorded snapshot.
C1_SnapshotsImmutable ==
    [][\A i \in 1..Len(session_data) :
          /\ i <= Len(session_data')
          /\ SnapshotReadings(i)' = SnapshotReadings(i)]_vars

StatusNames == {"Critical", "Warning", "High", "Normal"}

CriticalClause(a) ==
    \/ 10 * a.voltage <= float_mul(CELL_TYPES[a.cell_type].minimum_voltage, 11)
    \/ a.temperature > 450

WarningClause(a) ==
    \/ 10 * a.voltage <= float_mul(CELL_TYPES[a.cell_type].minimum_voltage, 12)
    \/ a.temperature > 400

HighClause(a) ==
    10 * a.voltage >= float_mul(CELL_TYPES[a.cell_type].maximum_voltage, 9)

\* C2: get_cell_status returns exactly one of the four statuses, by precedence:
\* Critical iff its clause holds, Warning iff its clause holds and Critical's does
\* not, High iff its clause holds and neither of the former, Normal otherwise; a
\* reading over 45 degC with a High voltage is Critical.
C2_StatusPrecedence ==
    fn = "get_cell_status" =>
        /\ ret.status \in StatusNames
        /\ (ret.status = "Critical") <=> CriticalClause(arg)
        /\ (ret.status = "Warning") <=> (~CriticalClause(arg) /\ WarningClause(arg))
        /\ (ret.status = "High") <=>
              (~CriticalClause(arg) /\ ~WarningClause(arg) /\ HighClause(arg))
        /\ (ret.status = "Normal") <=>
              (~CriticalClause(arg) /\ ~WarningClause(arg) /\ ~HighClause(arg))
        /\ (arg.temperature > 450 /\ HighClause(arg)) => ret.status = "Critical"

C2_Witness ==
    /\ fn = "get_cell_status"
    /\ arg.temperature > 450
    /\ HighClause(arg)
    /\ ret.status = "Critical"

LfpThreeVolts == [voltage |-> 300, temperature |-> 200, cell_type |-> "LFP"]

\* C3 as stated: an LFP reading of 3.0 V at 20 degC is classified Warning.
C3_Original ==
    (fn = "get_cell_status" /\ arg = LfpThreeVolts) => ret.status = "Warning"

\* C3, amended: an LFP reading of 3.0 V at 20 degC is classified Critical, since
\* 3.0 <= 2.8 * 1.1 = 3.08 and the Critical check comes first.
C3_LfpThreeVoltsCritical ==
    (fn = "get_cell_status" /\ arg = LfpThreeVolts) => ret.status = "Critical"

C3_Witness ==
    /\ fn = "get_cell_status"
    /\ arg = LfpThreeVolts
    /\ 10 * arg.voltage <= float_mul(CELL_TYPES["LFP"].minimum_voltage, 11)

IsSnapshotList(data) == \A i \in 1..Len(data) : "cells" \in DOMAIN data[i]

\* the number of readings of a snapshot list
RECURSIVE ReadingCount(_)
ReadingCount(data) ==
    IF data = <<>> THEN 0 ELSE Len(Head(data).cells) + ReadingCount(Tail(data))

\* C4: calculate_session_averages returns the all-zero summary, with no NaN, for
\* the empty list and for every snapshot list whose snapshots hold no reading.
C4_ZeroSummaryOfNoReadings ==
    (fn = "calculate_session_averages" /\ IsSnapshotList(arg) /\ ReadingCount(arg) = 0) =>
        /\ ret = [voltage |-> 0, temperature |-> 0, soc |-> 0, capacity |-> 0]
        /\ \A f \in DOMAIN ret : ret[f] # NaN

C4_Witness ==
    /\ fn = "calculate_session_averages"
    /\ Len(arg) = 2
    /\ IsSnapshotList(arg)
    /\ ReadingCount(arg) = 0
    /\ ret.voltage = 0

\* the sum of a field over the readings of a snapshot list, snapshot by snapshot
RECURSIVE FieldSum(_, _)
FieldSum(data, f) ==
    IF data = <<>> THEN 0
    ELSE LET cells == Head(data).cells
         IN  SumSeq([j \in 1..Len(cells) |-> cells[j][f]]) + FieldSum(Tail(data), f)

\* reading k of the concatenation of the snapshots' readings
RECURSIVE ReadingAt(_, _)
ReadingAt(data, k) ==
    IF k <= Len(Head(data).cells) THEN Head(data).cells[k]
    ELSE ReadingAt(Tail(data), k - Len(Head(data).cells))

FlatList(data) == [k \in 1..ReadingCount(data) |-> ReadingAt(data, k)]

OneAndThree ==
    SessionOf(<<<<reading(300, 200, 0, 300, 1, "LCO")>>,
                <<reading(400, 400, 800, 400, 2, "LCO"),
                  reading(400, 400, 800, 400, 2, "LCO"),
                  reading(400, 400, 800, 400, 2, "LCO")>>>>)

\* C5: over a snapshot list with readings, every mean is the sum of the field over
\* all readings divided by the number of readings, rounded: the result of the flat
\* list of the same readings; 1 reading of 3.0 V and 3 of 4.0 V give 3.75 V.
C5_ReadingWeightedMean ==
    (fn = "calculate_session_averages" /\ IsSnapshotList(arg) /\ ReadingCount(arg) > 0) =>
        /\ \A f \in {"voltage", "temperature", "soc", "capacity"} :
              ret[f] = RoundHalfEven(FieldSum(arg, f), ReadingCount(arg))
        /\ ret = calculate_session_averages(FlatList(arg))
        /\ arg = OneAndThree => ret.voltage = 375

C5_Witness ==
    /\ fn = "calculate_session_averages"
    /\ arg = OneAndThree
    /\ ret.voltage = 375

\* C6 as stated: when a side of the comparison has no reading (no snapshot, or
\* only snapshots without readings), the chart has no bars.
C6_NoZeroBars ==
    (/\ fn = "create_comparison_chart"
     /\ ReadingCount(arg.current_data) = 0 \/ ReadingCount(arg.previous_data) = 0) =>
        ret.data = <<>>

ComparisonOthers == {SessionOf(<<cells>>) : cells \in SeqsUpTo(AvgReadings, MaxCompareCells)}

\* C7: for non-empty sessions A and B, the chart of (A, B) and the chart of (B, A)
\* show the same values with the sides swapped, and A's values are those of A
\* whatever the other side is.
C7_ComparisonSymmetric ==
    (fn = "create_comparison_chart" /\ arg.current_data # <<>> /\ arg.previous_data # <<>>) =>
        LET swapped == create_comparison_chart(arg.previous_data, arg.current_data)
        IN  /\ ret.data[1].x = <<"Voltage", "Temperature", "SOC", "Capacity">>
            /\ ret.data[2].x = ret.data[1].x
            /\ swapped.data[2].y = ret.data[1].y
            /\ swapped.data[1].y = ret.data[2].y
            /\ \A other \in ComparisonOthers :
                  /\ create_comparison_chart(arg.current_data, other).data[1].y
                        = ret.data[1].y
                  /\ create_comparison_chart(other, arg.current_data).data[2].y
                        = ret.data[1].y

C7_Witness ==
    /\ fn = "create_comparison_chart"
    /\ ReadingCount(arg.current_data) > 0
    /\ ReadingCount(arg.previous_data) > 0
    /\ ret.data[1].y # ret.data[2].y

\* the rows exported before those of snapshot i
RowsBefore(data, i) == ReadingCount(SubSeq(data, 1, i - 1))

\* C8: export_to_csv returns one row per (snapshot, reading) pair, sum(k_i) rows,
\* in snapshot order and then reading order, each with its snapshot's timestamp,
\* its reading's fields and the status get_cell_status gives the reading.
C8_ExportRowPerReading ==
    fn = "export_to_csv" =>
        /\ ~Raises(ret)
        /\ Len(ret.rows) = ReadingCount(arg)
        /\ \A i \in 1..Len(arg) : \A j \in 1..Len(arg[i].cells) :
              LET row  == ret.rows[RowsBefore(arg, i) + j]
                  cell == arg[i].cells[j]
              IN  /\ row.Timestamp = arg[i].timestamp
                  /\ row.Cell_Name = cell.name
                  /\ row.Type = cell.type
                  /\ row.Voltage = cell.voltage
                  /\ row.Current = cell.current
                  /\ row.Temperature = cell.temperature
                  /\ row.Capacity = cell.capacity
                  /\ row.SOC = cell.soc
                  /\ row.Status =
                        get_cell_status(cell.voltage, cell.temperature, cell.type).status

C8_Witness ==
    /\ fn = "export_to_csv"
    /\ Len(arg) = 2
    /\ Len(arg[1].cells) = 1
    /\ Len(arg[2].cells) = 2
    /\ arg[2].cells[1] # arg[2].cells[2]
    /\ Len(ret.rows) = 3

RunningTasks(tasks) == {k \in 1..Len(tasks) : tasks[k].status = "running"}

\* C9: the task columns of every row of a snapshot are the type and progress of
\* the first task of the snapshot's list whose status is 'running'; with no
\* running task they are 'None' and 0.
C9_FirstRunningTask ==
    fn = "export_to_csv" =>
        \A i \in 1..Len(arg) : \A j \in 1..Len(arg[i].cells) :
            LET row     == ret.rows[RowsBefore(arg, i) + j]
                tasks   == arg[i].tasks
                running == RunningTasks(tasks)
            IN  IF running = {}
                THEN row.Active_Task = "None" /\ row.Task_Progress = 0
                ELSE LET first == CHOOSE k \in running : \A m \in running : k <= m
                     IN  /\ row.Active_Task = tasks[first].type
                         /\ row.Task_Progress = tasks[first].progress

C9_Witness ==
    /\ fn = "export_to_csv"
    /\ Len(arg) = 1
    /\ Len(arg[1].cells) = 1
    /\ RunningTasks(arg[1].tasks) = {1, 2}
    /\ arg[1].tasks[1].type # arg[1].tasks[2].type
    /\ ret.rows[1].Active_Task = arg[1].tasks[1].type

\* C10: the session log only grows: every step leaves the snapshots recorded so
\* far in place (the log before is a prefix of the log after, and so are the
\* snapshot timestamps), and the log changes only by 'Update Data' with a
\* non-empty cell list appending exactly one snapshot, which it always does.
C10_LogOnlyGrows ==
    [][/\ IsPrefix(session_data, session_data')
       /\ IsPrefix([i \in 1..Len(session_data) |-> session_data[i].timestamp],
                   [i \in 1..Len(session_data') |-> session_data'[i].timestamp])
       /\ (session_data' # session_data) <=>
             (cells_data # <<>> /\ ui_out' = [kind |-> "success", text |-> "Data updated!"])
       /\ (session_data' # session_data) =>
             /\ Len(session_data') = Len(session_data) + 1
             /\ session_data'[Len(session_data')].timestamp = clock
             /\ session_data'[Len(session_data')].tasks = tasks_data]_vars

C10_Witness ==
    /\ Len(session_data) = 2
    /\ session_data[1].timestamp < session_data[2].timestamp
    /\ ui_out = [kind |-> "success", text |-> "Data updated!"]

----------------------------------------------------------------------------
(* generate_cell_data on its own: with its three draws, and from a raw     *)
(* voltage given, from MaxRawExcess below the chemistry's minimum to       *)
(* MaxRawExcess above its maximum, in steps of RawGrid and within one unit *)
(* of the two limits (units of 0.0001 V).                                  *)

MaxRawExcess == 5000
RawGrid == 100

RawVoltages(cell_type) ==
    LET lo == CELL_TYPES[cell_type].minimum_voltage * 100
        hi == CELL_TYPES[cell_type].maximum_voltage * 100
    IN  {lo - MaxRawExcess + k * RawGrid : k \in 0..((hi - lo + 2 * MaxRawExcess) \div RawGrid)}
        \cup {lo - 1, lo, lo + 1, hi - 1, hi, hi + 1}

GenerateInputs ==
    UNION {[cell_type : {t}, raw_voltage : RawVoltages(t),
            u1 : {0, 999}, u2 : {500}, u3 : {0, 999}] : t \in CellTypeIds}

InitGenerate ==
    /\ InitSessionState
    /\ fn = "none"
    /\ arg \in GenerateInputs
    /\ ret = <<>>

CallGenerateFromRaw ==
    /\ fn = "none"
    /\ fn' = "generate_from_raw"
    /\ ret' = generate_from_raw(arg.cell_type, arg.raw_voltage, arg.u2, arg.u3, 0)
    /\ UNCHANGED arg
    /\ UNCHANGED uiVars

CallGenerateCellData ==
    /\ fn = "none"
    /\ fn' = "generate_cell_data"
    /\ ret' = generate_cell_data(arg.cell_type, arg.u1, arg.u2, arg.u3, 0)
    /\ UNCHANGED arg
    /\ UNCHANGED uiVars

NextGenerate == CallGenerateFromRaw \/ CallGenerateCellData

SpecGenerate == InitGenerate /\ [][NextGenerate]_vars

\* C11: whatever the raw voltage, below the minimum and above the maximum
\* included, the reading's voltage is within [minimum, maximum] and its soc within
\* [0, 100]; the soc is 0 at (and below) the minimum and 100 at (and above) the
\* maximum voltage.
C11_SocWithinRange ==
    fn \in {"generate_from_raw", "generate_cell_data"} =>
        LET specs == CELL_TYPES[arg.cell_type]
        IN  /\ ret.soc >= 0 /\ ret.soc <= 1000
            /\ ret.voltage >= specs.minimum_voltage
            /\ ret.voltage <= specs.maximum_voltage
            /\ (fn = "generate_from_raw" /\ arg.raw_voltage <= specs.minimum_voltage * 100)
                  => (ret.soc = 0 /\ ret.voltage = specs.minimum_voltage)
            /\ (fn = "generate_from_raw" /\ arg.raw_voltage >= specs.maximum_voltage * 100)
                  => (ret.soc = 1000 /\ ret.voltage = specs.maximum_voltage)

C11_Witness ==
    /\ fn = "generate_from_raw"
    /\ arg.raw_voltage > CELL_TYPES[arg.cell_type].maximum_voltage * 100
    /\ ret.soc = 1000

----------------------------------------------------------------------------
(* Readings of a chemistry CELL_TYPES does not have: get_cell_status on a  *)
(* cell of a session, and export_to_csv on the session, the sessions being *)
(* those of the export above with one more reading, of type "LiPo".        *)

UnknownReading == reading(350, 250, 500, 280, 4, "LiPo")

AnyReadings == ExportReadings \cup {UnknownReading}

SnapshotsOfSizeOver(readings, k) ==
    UNION {{[cells |-> c, tasks |-> t] :
               c \in SeqsOfLen(readings, a), t \in SeqsOfLen(ExportTasks, k - a)} :
           a \in 0..k}

RECURSIVE SnapshotListsOver(_, _, _)
SnapshotListsOver(readings, n, m) ==
    IF n = 0 THEN {<<>>}
    ELSE {<<>>} \cup
         UNION {{<<p>> \o rest : p \in SnapshotsOfSizeOver(readings, k),
                                 rest \in SnapshotListsOver(readings, n - 1, m - k)} :
                k \in 0..m}

AnySessions ==
    {[i \in 1..Len(parts) |->
         [timestamp |-> i, cells |-> parts[i].cells, tasks |-> parts[i].tasks]] :
     parts \in SnapshotListsOver(AnyReadings, MaxExportSnapshots, MaxExportItems)}

InitUnknown ==
    /\ InitSessionState
    /\ fn = "none"
    /\ arg \in AnySessions
    /\ ret = <<>>

\* get_cell_status as line 309 calls it, on a cell of the session
CallStatusOfCell ==
    /\ fn = "none"
    /\ \E i \in 1..Len(arg) : \E j \in 1..Len(arg[i].cells) :
          LET cell == arg[i].cells[j]
          IN  ret' = [cell   |-> cell,
                      result |-> get_cell_status(cell.voltage, cell.temperature, cell.type)]
    /\ fn' = "get_cell_status"
    /\ UNCHANGED arg
    /\ UNCHANGED uiVars

NextUnknown == CallStatusOfCell \/ CallExport

SpecUnknown == InitUnknown /\ [][NextUnknown]_vars

HasUnknownType(data) ==
    \E i \in 1..Len(data) : \E j \in 1..Len(data[i].cells) :
        data[i].cells[j].type \notin CellTypeIds

\* C12: get_cell_status of a chemistry outside {LFP, NMC, LCO} raises KeyError and
\* gives no status; export_to_csv of a session holding a reading of such a
\* chemistry raises it too and gives no rows, not even those of the readings
\* before it.
C12_UnknownChemistryFails ==
    /\ (fn = "get_cell_status" /\ ret.cell.type \notin {"LFP", "NMC", "LCO"}) =>
          /\ ret.result = [raise |-> "KeyError"]
          /\ "status" \notin DOMAIN ret.result
    /\ (fn = "get_cell_status" /\ ret.cell.type \in {"LFP", "NMC", "LCO"}) =>
          "status" \in DOMAIN ret.result
    /\ (fn = "export_to_csv" /\ HasUnknownType(arg)) =>
          /\ ret = [raise |-> "KeyError"]
          /\ "rows" \notin DOMAIN ret
    /\ (fn = "export_to_csv" /\ ~HasUnknownType(arg)) =>
          "rows" \in DOMAIN ret

C12_Witness ==
    /\ fn = "export_to_csv"
    /\ Len(arg) = 2
    /\ Len(arg[1].cells) = 1
    /\ arg[1].cells[1].type \in CellTypeIds
    /\ Len(arg[2].cells) = 2
    /\ arg[2].cells[1].type \in CellTypeIds
    /\ arg[2].cells[2].type \notin CellTypeIds
    /\ Raises(ret)

\* C13: for LFP and NMC the Warning voltage limit (minimum * 1.2) lies above the
\* High one (maximum * 0.9), and get_cell_status never returns Normal; for LCO it
\* lies below, and the readings strictly between the two limits at up to 40 degC
\* are Normal.
C13_NormalOnlyForLco ==
    /\ \A t \in {"LFP", "NMC"} :
          float_mul(CELL_TYPES[t].minimum_voltage, 12) > float_mul(CELL_TYPES[t].maximum_voltage, 9)
    /\ float_mul(CELL_TYPES["LCO"].minimum_voltage, 12)
          < float_mul(CELL_TYPES["LCO"].maximum_voltage, 9)
    /\ (fn = "get_cell_status" /\ arg.cell_type \in {"LFP", "NMC"}) =>
          ret.status \in {"Critical", "Warning", "High"}
    /\ (/\ fn = "get_cell_status"
        /\ arg.cell_type = "LCO"
        /\ arg.voltage > 360 /\ arg.voltage < 378
        /\ arg.temperature <= 400) => ret.status = "Normal"

C13_Witness ==
    /\ fn = "get_cell_status"
    /\ arg.cell_type = "LCO"
    /\ ret.status = "Normal"

CompareWarning ==
    [kind |-> "warning",
     text |-> "Current and previous session data required for comparison"]

\* C14: previous_session_data is empty in every reachable state, so 'Compare
\* Sessions' always shows its warning and never a comparison chart.
C14_NoPreviousSession ==
    /\ previous_session_data = <<>>
    /\ ui_out.kind # "chart"

C14_Witness ==
    /\ ui_out = CompareWarning
    /\ Len(session_data) >= 2
    /\ previous_session_data = <<>>

AllPending(tasks) ==
    \A k \in 1..Len(tasks) : tasks[k].status = "pending" /\ tasks[k].progress = 0

\* C15: every task of tasks_data and of every recorded snapshot is pending with
\* progress 0, and every row of an export has Active Task 'None' and Task
\* Progress 0.
C15_TasksNeverStart ==
    /\ AllPending(tasks_data)
    /\ \A i \in 1..Len(session_data) : AllPending(session_data[i].tasks)
    /\ ui_out.kind = "download" =>
          /\ Len(ui_out.csv.rows) >= 1
          /\ \A k \in 1..Len(ui_out.csv.rows) :
                /\ ui_out.csv.rows[k].Active_Task = "None"
                /\ ui_out.csv.rows[k].Task_Progress = 0

C15_Witness ==
    /\ ui_out.kind = "download"
    /\ monitoring_active
    /\ Len(session_data) >= 1
    /\ session_data[1].tasks # <<>>
    /\ Len(ui_out.csv.rows) >= 1

====
